---- MODULE Spec2Model ----
(***************************************************************************)
(* Model of the job-log renderer of glctl (src/src/utils.rs): the section  *)
(* marker parser Section::from_str, the visibility rule                    *)
(* StateMachine::show_line and the line/segment loop of _print_log.        *)
(*                                                                         *)
(* A text is a sequence of tokens; a token is a run of characters that the *)
(* parser never splits (a keyword, a name, a flags word) or one of the     *)
(* single characters it searches for (":", "[", "]", "\r", " ").           *)
(***************************************************************************)
EXTENDS Integers, Sequences, FiniteSets, TLC

(* ---------------------------- bounds ----------------------------------- *)
\* lines of the log read by one render
MaxLines == 4
\* SGR segments of one line
MaxLineSegs == 2
\* SGR segments of the whole log
MaxSegs == 6
\* tokens of the third field of a marker handed to Section::from_str alone
MaxField == 4
\* depth of the stack handed to StateMachine::show_line alone
MaxDepth == 3

(* ---------------------------- characters ------------------------------- *)
CR == "\r"
SP == " "
COLON == ":"
LBRACK == "["
RBRACK == "]"
KwStart == "section_start"
KwEnd == "section_end"
FlagCollapsed == "collapsed=true"

(* ---------------------------- &str helpers ----------------------------- *)
\* str::starts_with
StartsWith(s, p) == Len(s) >= Len(p) /\ SubSeq(s, 1, Len(p)) = p

IsWhite(c) == c \in {CR, SP}

RECURSIVE TrimStart(_)
TrimStart(s) == IF s # <<>> /\ IsWhite(Head(s)) THEN TrimStart(Tail(s)) ELSE s

RECURSIVE TrimEnd(_)
TrimEnd(s) ==
    IF s # <<>> /\ IsWhite(s[Len(s)]) THEN TrimEnd(SubSeq(s, 1, Len(s) - 1)) ELSE s

\* str::trim: whitespace is removed at both ends
Trim(s) == TrimEnd(TrimStart(s))

\* str::find: position of the first occurrence, 0 when there is none
Find(s, c) ==
    IF \E i \in 1..Len(s) : s[i] = c
    THEN CHOOSE i \in 1..Len(s) : s[i] = c /\ \A j \in 1..(i - 1) : s[j] # c
    ELSE 0

\* str::splitn(3, ':') collected into a Vec: at most three fields, the last
\* one keeps every further ':'
Splitn3(s) ==
    LET i == Find(s, COLON) IN
    IF i = 0 THEN <<s>>
    ELSE LET rest == SubSeq(s, i + 1, Len(s))
             j == Find(rest, COLON)
         IN  IF j = 0 THEN <<SubSeq(s, 1, i - 1), rest>>
             ELSE <<SubSeq(s, 1, i - 1), SubSeq(rest, 1, j - 1),
                    SubSeq(rest, j + 1, Len(rest))>>

(* ---------------------------- Section::from_str ------------------------ *)
\* results of a parse: Ok(Section), Err(SectionError), or a panic of the call
SectionError == [tag |-> "Err"]
Panic == [tag |-> "Panic"]
Section(type_, name, collapsed) ==
    [tag |-> "Ok", type_ |-> type_, name |-> name, collapsed |-> collapsed]

\* SectionType::from_str
SectionTypeFromStr(f) ==
    IF f = <<KwStart>> THEN "Start" ELSE IF f = <<KwEnd>> THEN "End" ELSE "Err"

\* variant of NameFlags: the name slice keeps the '[' (&name[..=i])
NameFlags_inclusive(name) ==
    LET i == Find(name, LBRACK)
        j == Find(name, RBRACK)
    IN  IF i = 0 \/ j = 0 THEN [tag |-> "None"]
        ELSE IF j < i THEN Panic
        ELSE [tag |-> "Some", n |-> SubSeq(name, 1, i),
              flags |-> SubSeq(name, i + 1, j - 1)]

\* name.find('[').and_then(|i| name.find(']').map(|j| (&name[..i], &name[i+1..j])))
\* "None" when a bracket is missing, "Panic" when the slice i+1..j is reversed
NameFlags(name) ==
    LET i == Find(name, LBRACK)
        j == Find(name, RBRACK)
    IN  IF i = 0 \/ j = 0 THEN [tag |-> "None"]
        ELSE IF j < i THEN Panic
        ELSE [tag |-> "Some", n |-> SubSeq(name, 1, i - 1),
              flags |-> SubSeq(name, i + 1, j - 1)]

FromStr(s) ==
    IF StartsWith(s, <<KwStart, COLON>>) \/ StartsWith(s, <<KwEnd, COLON>>)
    THEN LET info == Splitn3(Trim(s)) IN
         \* try_into::<[&str; 3]>().unwrap()
         IF Len(info) # 3 THEN Panic
         ELSE LET type_ == SectionTypeFromStr(info[1])
                  name == info[3]
                  nf == NameFlags(name)
              IN  IF type_ = "Err" THEN SectionError
                  ELSE IF nf.tag = "Panic" THEN Panic
                  ELSE IF nf.tag = "Some"
                       THEN Section(type_, nf.n, nf.flags = <<FlagCollapsed>>)
                       ELSE Section(type_, name, FALSE)
    ELSE SectionError

(* ---------------------------- StateMachine::show_line ------------------ *)
\* variant of AllNotCollapsed: only the innermost open section is examined
AllNotCollapsed_top(secs) == secs = <<>> \/ ~secs[Len(secs)].collapsed

\* Iterator::all(|section| !section.collapsed), front to back
RECURSIVE AllNotCollapsed(_)
AllNotCollapsed(secs) ==
    IF secs = <<>> THEN TRUE
    ELSE IF Head(secs).collapsed THEN FALSE
    ELSE AllNotCollapsed(Tail(secs))

\* variant of AnyNamed: only the innermost open section is compared
AnyNamed_top(secs, step) == secs # <<>> /\ secs[Len(secs)].name = step

\* Iterator::any(|section| section.name == step), front to back
RECURSIVE AnyNamed(_, _)
AnyNamed(secs, step) ==
    IF secs = <<>> THEN FALSE
    ELSE IF Head(secs).name = step THEN TRUE
    ELSE AnyNamed(Tail(secs), step)

ShowLine(secs, all, step) ==
    all \/ secs = <<>> \/ (AllNotCollapsed(secs) /\ AnyNamed(secs, step))

(* ---------------------------- the log ----------------------------------- *)
\* segment texts the rendered logs are made of
MkStartCollapsed == <<KwStart, COLON, "0", COLON, "a", LBRACK, FlagCollapsed, RBRACK>>
MkStartA == <<KwStart, COLON, "0", COLON, "A">>
MkStartB == <<KwStart, COLON, "0", COLON, "B">>
MkEnd_a == <<KwEnd, COLON, "0", COLON, "a">>
MkEndA == <<KwEnd, COLON, "0", COLON, "A">>
MkEndB == <<KwEnd, COLON, "0", COLON, "B">>
TxtHidden == <<"hidden line">>
TxtVisible == <<"visible line">>
TxtShortMarker == <<KwStart, COLON, "abc">>

SegTexts ==
    {MkStartCollapsed, MkStartA, MkStartB, MkEnd_a, MkEndA, MkEndB,
     TxtHidden, TxtVisible, TxtShortMarker}

\* PipelineLog.step
Steps == {<<"A">>, <<"x">>}

(* ---------------------------- state ------------------------------------ *)
VARIABLES
    all,        \* args.all
    step,       \* args.step
    colored,    \* the resolved color decision of _print_log
    pc,         \* position of _print_log: "read", "seg", "done", "failed", "panicked"
    nread,      \* lines taken from reader so far
    nsegs,      \* segments taken from the segment iterators so far
    line,       \* the segments of the current line that the iterator has yielded
    state,      \* StateMachine.state: State::Text or State::Section(section)
    sections,   \* StateMachine.sections, top = last
    show_line,  \* the local show_line of the while loop
    out,        \* what has been printed while processing the current line
    markers,    \* count of segments that Section::from_str accepted as markers
    banners,    \* count of print_section calls
    hist,       \* the lines read so far, kept while they start a scenario log
    fault,      \* the I/O fault the render met: "none", "write" or "utf8"
    parse,      \* one call of Section::from_str: its text and its result
    vis         \* one call of StateMachine::show_line: its inputs and result

vars == <<all, step, colored, pc, nread, nsegs, line, state, sections, show_line,
          out, markers, banners, hist, fault, parse, vis>>

\* State::Text and State::Section(section)
StateText == [tag |-> "Text"]
StateSection(section) == [tag |-> "Section", section |-> section]

NoCall == [tag |-> "None"]

(* ---------------------------- scenario logs ---------------------------- *)
\* section_start:0:a[collapsed=true] / hidden line / section_end:0:a / visible line
CollapsedLog == << <<MkStartCollapsed>>, <<TxtHidden>>, <<MkEnd_a>>, <<TxtVisible>> >>
\* Start A, Start B, End B, End A, each marker on its own line
NestedLog == << <<MkStartA>>, <<MkStartB>>, <<MkEndB>>, <<MkEndA>> >>
\* the same markers, each Start followed by its title segment
NestedTitledLog ==
    << <<MkStartA, TxtVisible>>, <<MkStartB, TxtVisible>>, <<MkEndB>>, <<MkEndA>> >>

ScenarioLogs == {CollapsedLog, NestedLog, NestedTitledLog}

Diverged == << <<<<"#">>>> >>

IsPrefix(p, l) == Len(p) <= Len(l) /\ SubSeq(l, 1, Len(p)) = p

Track(h, l) ==
    IF h # Diverged /\ \E sl \in ScenarioLogs : IsPrefix(Append(h, l), sl)
    THEN Append(h, l) ELSE Diverged

(* ---------------------------- output ----------------------------------- *)
\* print_msg of one unstyled segment (plain mode)
EvText(s) == [kind |-> "text", text |-> s]
\* the end-of-line print: the raw line in colored mode, then "\n"
EvLine(l, col) == [kind |-> "eol", raw |-> IF col THEN l ELSE <<>>]
\* print_msg("\n") after a banner
EvBlank == [kind |-> "blank"]

\* variant of print_section: " <" is appended when the body is shown
print_section_inverted(title, section, show, col) ==
    [kind |-> "banner", title |-> title, name |-> section.name,
     filtered |-> show, extra_nl |-> (show /\ section.collapsed /\ col)]

\* print_section(title, section, show_line, colored)
print_section(title, section, show, col) ==
    [kind |-> "banner", title |-> title, name |-> section.name,
     filtered |-> ~show, extra_nl |-> (~show /\ section.collapsed /\ col)]

(* ---------------------------- _print_log ------------------------------- *)
InitRender ==
    /\ all \in BOOLEAN
    /\ step \in Steps
    /\ colored \in BOOLEAN
    /\ pc = "read"
    /\ nread = 0
    /\ nsegs = 0
    /\ line = <<>>
    /\ state = StateText
    /\ sections = <<>>
    /\ show_line = FALSE
    /\ out = <<>>
    /\ markers = 0
    /\ banners = 0
    /\ hist = <<>>
    /\ fault = "none"

Init ==
    /\ InitRender
    /\ parse = [pre |-> <<>>, kw |-> KwStart, ts |-> TRUE, field |-> <<>>,
                suf |-> <<>>, ret |-> NoCall]
    /\ vis = [secs |-> <<>>, all |-> FALSE, step |-> <<>>, called |-> FALSE, ret |-> FALSE]

\* reader.next() yields a line: show_line is evaluated for the line
NextLine ==
    /\ pc = "read"
    /\ nread < MaxLines
    /\ nread' = nread + 1
    /\ line' = <<>>
    /\ out' = <<>>
    /\ show_line' = ShowLine(sections, all, step)
    /\ pc' = "seg"
    /\ UNCHANGED <<all, step, colored, nsegs, state, sections, markers, banners,
                   hist, fault, parse, vis>>

\* variant of BadLine: the unreadable line is skipped and the loop goes on
BadLine_skipped ==
    /\ pc = "read"
    /\ nread < MaxLines
    /\ nread' = nread + 1
    /\ fault' = "utf8"
    /\ pc' = "read"
    /\ UNCHANGED <<all, step, colored, nsegs, line, state, sections,
                   show_line, out, markers, banners, hist, parse, vis>>

\* reader.next() yields Some(Err(_)), a line that is not UTF-8: the
\* while-let pattern does not match, the loop ends, Ok(())
BadLine ==
    /\ pc = "read"
    /\ nread < MaxLines
    /\ nread' = nread + 1
    /\ fault' = "utf8"
    /\ pc' = "done"
    /\ UNCHANGED <<all, step, colored, nsegs, line, state, sections,
                   show_line, out, markers, banners, hist, parse, vis>>

\* reader.next() yields nothing more: Ok(())
Finish ==
    /\ pc = "read"
    /\ pc' = "done"
    /\ UNCHANGED <<all, step, colored, nread, nsegs, line, state, sections,
                   show_line, out, markers, banners, hist, fault, parse, vis>>

\* the segment iterator of the line yields its next segment s
Yields(s) ==
    /\ pc = "seg"
    /\ Len(line) < MaxLineSegs
    /\ nsegs < MaxSegs
    /\ s \in SegTexts
    /\ line' = Append(line, s)
    /\ nsegs' = nsegs + 1

\* print_msg(..)?: the write succeeds, or fails and the error is returned
WriteOk == {TRUE, FALSE}

\* variant of SegText: a Start marker is pushed as soon as it is recognised
SegText_eager ==
    \E s \in SegTexts, ok \in WriteOk :
        /\ Yields(s)
        /\ state = StateText
        /\ LET r == FromStr(s) IN
           IF r.tag = "Panic"
           THEN /\ ok
                /\ pc' = "panicked"
                /\ UNCHANGED <<state, out, markers, fault, sections>>
           ELSE IF r.tag = "Ok"
           THEN /\ ok
                /\ pc' = "seg"
                /\ state' = StateSection(r)
                /\ markers' = markers + 1
                /\ sections' = IF r.type_ = "Start" THEN Append(sections, r)
                               ELSE sections
                /\ UNCHANGED <<out, fault>>
           ELSE IF show_line /\ ~colored
           THEN /\ pc' = IF ok THEN "seg" ELSE "failed"
                /\ fault' = IF ok THEN fault ELSE "write"
                /\ out' = IF ok THEN Append(out, EvText(s)) ELSE out
                /\ UNCHANGED <<state, markers, sections>>
           ELSE /\ ok
                /\ pc' = "seg"
                /\ UNCHANGED <<state, out, markers, fault, sections>>
        /\ UNCHANGED <<all, step, colored, nread, show_line,
                       banners, hist, parse, vis>>

\* State::Text: the segment is tried as a marker, else printed in plain mode
SegText ==
    \E s \in SegTexts, ok \in WriteOk :
        /\ Yields(s)
        /\ state = StateText
        /\ LET r == FromStr(s) IN
           IF r.tag = "Panic"
           THEN /\ ok
                /\ pc' = "panicked"
                /\ UNCHANGED <<state, out, markers, fault>>
           ELSE IF r.tag = "Ok"
           THEN /\ ok
                /\ pc' = "seg"
                /\ state' = StateSection(r)
                /\ markers' = markers + 1
                /\ UNCHANGED <<out, fault>>
           ELSE IF show_line /\ ~colored
           THEN /\ pc' = IF ok THEN "seg" ELSE "failed"
                /\ fault' = IF ok THEN fault ELSE "write"
                /\ out' = IF ok THEN Append(out, EvText(s)) ELSE out
                /\ UNCHANGED <<state, markers>>
           ELSE /\ ok
                /\ pc' = "seg"
                /\ UNCHANGED <<state, out, markers, fault>>
        /\ UNCHANGED <<all, step, colored, nread, sections, show_line,
                       banners, hist, parse, vis>>

\* the writes of the Start branch: w names the write that fails, if any
StartWrites == {"ok", "banner", "blank"}

\* variant of SegStart: show_line is not re-evaluated after the push
SegStart_stale ==
    \E s \in SegTexts, w \in StartWrites :
        /\ Yields(s)
        /\ state.tag = "Section"
        /\ state.section.type_ = "Start"
        /\ LET section == state.section
               pushed == Append(sections, section)
               show == ShowLine(pushed, all, step)
               banner == print_section(s, section, show, colored)
           IN  /\ sections' = pushed
               /\ w = "blank" => (colored /\ show)
               /\ IF w = "banner"
                  THEN /\ out' = out
                       /\ show_line' = show_line
                       /\ UNCHANGED <<state, banners>>
                  ELSE /\ banners' = banners + 1
                       /\ state' = StateText
                       /\ out' = Append(out, banner)
                                    \o (IF colored /\ show /\ w = "ok"
                                        THEN <<EvBlank>> ELSE <<>>)
                       /\ show_line' = IF w = "ok" /\ colored THEN FALSE
                                       ELSE show_line
               /\ pc' = IF w = "ok" THEN "seg" ELSE "failed"
               /\ fault' = IF w = "ok" THEN fault ELSE "write"
        /\ UNCHANGED <<all, step, colored, nread, markers, hist, parse, vis>>

\* State::Section of type Start: push, banner with this segment as title
SegStart ==
    \E s \in SegTexts, w \in StartWrites :
        /\ Yields(s)
        /\ state.tag = "Section"
        /\ state.section.type_ = "Start"
        /\ LET section == state.section
               pushed == Append(sections, section)
               show == ShowLine(pushed, all, step)
               banner == print_section(s, section, show, colored)
           IN  /\ sections' = pushed
               /\ w = "blank" => (colored /\ show)
               /\ IF w = "banner"
                  THEN /\ out' = out
                       /\ show_line' = show
                       /\ UNCHANGED <<state, banners>>
                  ELSE /\ banners' = banners + 1
                       /\ state' = StateText
                       /\ out' = Append(out, banner)
                                    \o (IF colored /\ show /\ w = "ok"
                                        THEN <<EvBlank>> ELSE <<>>)
                       /\ show_line' = IF w = "ok" /\ colored THEN FALSE
                                       ELSE show
               /\ pc' = IF w = "ok" THEN "seg" ELSE "failed"
               /\ fault' = IF w = "ok" THEN fault ELSE "write"
        /\ UNCHANGED <<all, step, colored, nread, markers, hist, parse, vis>>

\* variant of Pop: the oldest entry is removed (Vec::remove(0))
Pop_front(secs) == IF secs = <<>> THEN secs ELSE Tail(secs)

\* Vec::pop
Pop(secs) == IF secs = <<>> THEN secs ELSE SubSeq(secs, 1, Len(secs) - 1)

\* variant of SegEnd: show_line keeps its re-evaluated value in colored mode
SegEnd_unforced ==
    \E s \in SegTexts :
        /\ Yields(s)
        /\ state.tag = "Section"
        /\ state.section.type_ = "End"
        /\ LET popped == Pop(sections)
               r == FromStr(s)
           IN  /\ sections' = popped
               /\ IF r.tag = "Panic"
                  THEN /\ pc' = "panicked"
                       /\ show_line' = ShowLine(popped, all, step)
                       /\ UNCHANGED <<state, markers>>
                  ELSE /\ pc' = "seg"
                       /\ state' = IF r.tag = "Ok" THEN StateSection(r) ELSE StateText
                       /\ markers' = IF r.tag = "Ok" THEN markers + 1 ELSE markers
                       /\ show_line' = ShowLine(popped, all, step)
        /\ UNCHANGED <<all, step, colored, nread, out, banners, hist, fault,
                       parse, vis>>

\* variant of SegEnd: the state returns to State::Text without re-parsing
SegEnd_text ==
    \E s \in SegTexts :
        /\ Yields(s)
        /\ state.tag = "Section"
        /\ state.section.type_ = "End"
        /\ LET popped == Pop(sections)
           IN  /\ sections' = popped
               /\ pc' = "seg"
               /\ state' = StateText
               /\ markers' = markers
               /\ show_line' = IF colored THEN FALSE
                               ELSE ShowLine(popped, all, step)
        /\ UNCHANGED <<all, step, colored, nread, out, banners, hist, fault,
                       parse, vis>>

\* State::Section of type End: pop, then this segment is tried as a marker
SegEnd ==
    \E s \in SegTexts :
        /\ Yields(s)
        /\ state.tag = "Section"
        /\ state.section.type_ = "End"
        /\ LET popped == Pop(sections)
               r == FromStr(s)
           IN  /\ sections' = popped
               /\ IF r.tag = "Panic"
                  THEN /\ pc' = "panicked"
                       /\ show_line' = ShowLine(popped, all, step)
                       /\ UNCHANGED <<state, markers>>
                  ELSE /\ pc' = "seg"
                       /\ state' = IF r.tag = "Ok" THEN StateSection(r) ELSE StateText
                       /\ markers' = IF r.tag = "Ok" THEN markers + 1 ELSE markers
                       /\ show_line' = IF colored THEN FALSE
                                       ELSE ShowLine(popped, all, step)
        /\ UNCHANGED <<all, step, colored, nread, out, banners, hist, fault,
                       parse, vis>>

\* variant of EndLine: the result of the end-of-line print is dropped
EndLine_ignored ==
    \E ok \in WriteOk :
        /\ pc = "seg"
        /\ ~ok => show_line
        /\ out' = IF show_line /\ ok THEN Append(out, EvLine(line, colored)) ELSE out
        /\ hist' = Track(hist, line)
        /\ pc' = "read"
        /\ fault' = IF ok THEN fault ELSE "write"
        /\ UNCHANGED <<all, step, colored, nread, nsegs, line, state, sections,
                       show_line, markers, banners, parse, vis>>

\* the iterator is exhausted: the line is printed when show_line is still true
EndLine ==
    \E ok \in WriteOk :
        /\ pc = "seg"
        /\ ~ok => show_line
        /\ out' = IF show_line /\ ok THEN Append(out, EvLine(line, colored)) ELSE out
        /\ hist' = Track(hist, line)
        /\ pc' = IF ok THEN "read" ELSE "failed"
        /\ fault' = IF ok THEN fault ELSE "write"
        /\ UNCHANGED <<all, step, colored, nread, nsegs, line, state, sections,
                       show_line, markers, banners, parse, vis>>

(* ---------------------------- single calls ----------------------------- *)
\* the render variables while no render runs
NoRender ==
    /\ all = FALSE
    /\ step = <<"x">>
    /\ colored = FALSE
    /\ pc = "done"
    /\ nread = 0
    /\ nsegs = 0
    /\ line = <<>>
    /\ state = StateText
    /\ sections = <<>>
    /\ show_line = FALSE
    /\ out = <<>>
    /\ markers = 0
    /\ banners = 0
    /\ hist = <<>>
    /\ fault = "none"

render == <<all, step, colored, pc, nread, nsegs, line, state, sections,
            show_line, out, markers, banners, hist, fault>>

\* texts handed to Section::from_str:
\*   pre keyword ':' [timestamp ':'] field suf
Keywords == {KwStart, KwEnd, "section_star"}
FieldChars == {"build", LBRACK, RBRACK, FlagCollapsed, "collapsed=false", COLON}
Fields == UNION {[1..n -> FieldChars] : n \in 0..MaxField}

TextOf(c) ==
    c.pre \o <<c.kw, COLON>> \o (IF c.ts THEN <<"0", COLON>> ELSE <<>>)
          \o c.field \o c.suf

InitFromStr ==
    /\ NoRender
    /\ \E pre \in {<<>>, <<CR>>}, kw \in Keywords, ts \in BOOLEAN,
          field \in Fields, suf \in {<<>>, <<CR>>} :
            parse = [pre |-> pre, kw |-> kw, ts |-> ts, field |-> field,
                     suf |-> suf, ret |-> NoCall]
    /\ vis = [secs |-> <<>>, all |-> FALSE, step |-> <<>>, called |-> FALSE, ret |-> FALSE]

\* Section::from_str(s)
CallFromStr ==
    /\ parse.ret = NoCall
    /\ parse' = [parse EXCEPT !.ret = FromStr(TextOf(parse))]
    /\ UNCHANGED <<render, vis>>

SpecFromStr == InitFromStr /\ [][CallFromStr]_vars

\* stacks handed to StateMachine::show_line
SectionNames == {<<"a">>, <<"A">>, <<"B">>}
Sections == {Section("Start", n, c) : n \in SectionNames, c \in BOOLEAN}
Stacks == UNION {[1..n -> Sections] : n \in 0..MaxDepth}

InitShowLine ==
    /\ NoRender
    /\ parse = [pre |-> <<>>, kw |-> KwStart, ts |-> TRUE, field |-> <<>>,
                suf |-> <<>>, ret |-> NoCall]
    /\ \E secs \in Stacks, a \in BOOLEAN, st \in Steps :
            vis = [secs |-> secs, all |-> a, step |-> st, called |-> FALSE, ret |-> FALSE]

\* state.show_line(args)
CallShowLine ==
    /\ ~vis.called
    /\ vis' = [vis EXCEPT !.called = TRUE,
                          !.ret = ShowLine(vis.secs, vis.all, vis.step)]
    /\ UNCHANGED <<render, parse>>

SpecShowLine == InitShowLine /\ [][CallShowLine]_vars

(* ---------------------------- the render ------------------------------- *)
Next == NextLine \/ BadLine \/ Finish \/ EndLine \/ SegStart \/ SegEnd \/ SegText

Spec == Init /\ [][Next]_vars

\* _print_log runs on one thread without suspension: it keeps taking steps
FairSpec == Spec /\ WF_vars(Next)

(* ---------------------------- properties ------------------------------- *)
\* the visibility rule, stated over the positions of the stack
Visible(secs, a, st) ==
    \/ a
    \/ secs = <<>>
    \/ /\ \A i \in 1..Len(secs) : ~secs[i].collapsed
       /\ \E i \in 1..Len(secs) : secs[i].name = st

\* s was printed as log text for the current line: as a plain segment, or
\* within the raw line printed at the end of the line
ShownAsText(s) ==
    \E k \in 1..Len(out) :
        \/ out[k] = EvText(s)
        \/ /\ out[k].kind = "eol"
           /\ \E j \in 1..Len(out[k].raw) : out[k].raw[j] = s

\* s was printed as the title of a banner for the current line
ShownAsTitle(s) ==
    \E k \in 1..Len(out) : out[k].kind = "banner" /\ out[k].title = s

\* segment texts that carry no marker keyword
PlainTexts == {TxtHidden, TxtVisible}

\* every SegStart step pushes once and calls print_section once
Pushes == banners

SecCollapsed == Section("Start", <<"a">>, TRUE)
SecA == Section("Start", <<"A">>, FALSE)
SecB == Section("Start", <<"B">>, FALSE)

\* C1: rendering section_start:0:a[collapsed=true] / hidden line /
\* section_end:0:a / visible line with all=false, step="x" prints two
\* banners and the text "visible line" and does not print "hidden line" as
\* log text, in plain and in colored mode.
C1_CollapsedScenario ==
    (~all /\ step = <<"x">> /\ pc = "read")
        => /\ hist = CollapsedLog => (banners = 2 /\ ShownAsText(TxtVisible))
           /\ hist = SubSeq(CollapsedLog, 1, 2) => ~ShownAsText(TxtHidden)

\* C2: with all=true, every plain text segment of a line that has been
\* processed was printed (as log text, or at least as a banner title),
\* whatever markers came before it and in both color modes.
C2_AllShowsEveryTextLine ==
    (all /\ pc = "read" /\ nread > 0)
        => \A i \in 1..Len(line) :
               line[i] \in PlainTexts
                   => (ShownAsText(line[i]) \/ ShownAsTitle(line[i]))

\* C3: when the render returns, one banner has been printed for every
\* Start or End marker the render recognised, the last segment included.
C3_BannerPerMarker == pc = "done" => banners = markers

\* C4: no segment text makes Section::from_str abort the render: the render
\* never panics.
C4_NeverAborts == pc # "panicked"

\* C5: show_line returns true exactly when all is set, or the stack is
\* empty, or no open section is collapsed and some open section is named step.
C5_ShowLineRule ==
    vis.called => (vis.ret <=> Visible(vis.secs, vis.all, vis.step))

C5_Witness ==
    /\ vis.called
    /\ ~vis.ret
    /\ Len(vis.secs) = 2
    /\ vis.secs[1].collapsed
    /\ ~vis.secs[2].collapsed
    /\ vis.secs[2].name = vis.step

\* a step that prints log text: a plain segment or the end-of-line print
EmitsLogText ==
    /\ Len(out') > Len(out)
    /\ out'[Len(out')].kind \in {"text", "eol"}

\* C6: with all=false, a step prints log text only if the visibility rule
\* holds on the stack at that step; in particular never while a collapsed
\* section is open.
C6_TextOnlyWhenVisible ==
    [][(~all /\ EmitsLogText)
          => /\ Visible(sections', all, step)
             /\ \A i \in 1..Len(sections') : ~sections'[i].collapsed]_vars

\* a text line was read inside section A nested in a collapsed section, with
\* step = A, and nothing was printed for it
C6_Witness ==
    /\ ~all
    /\ ~colored
    /\ step = <<"A">>
    /\ sections = <<SecCollapsed, SecA>>
    /\ pc = "read"
    /\ line = <<TxtVisible>>
    /\ out = <<>>

\* C7: after a log of well-nested markers (Start A, Start B, End B, End A)
\* has been rendered, the stack is empty and each of the two Start markers
\* has been pushed once.
C7_WellNestedEmpties ==
    (pc = "done" /\ hist \in {NestedLog, NestedTitledLog})
        => (sections = <<>> /\ Pushes = 2)

\* show_line as the loop holds it right after it was evaluated: in plain
\* mode throughout a line, in colored mode at the start of a line
Evaluated == pc = "seg" /\ (~colored \/ line = <<>>)

\* C8 as stated: with all=false, step = A, show_line is not true while B is
\* open inside A.
C8_HiddenWhileBOpen ==
    (~all /\ step = <<"A">> /\ Evaluated /\ sections = <<SecA, SecB>>)
        => ~show_line

\* C8 as amended: with all=false, step = A and only non-collapsed sections
\* open, show_line is true exactly while A is open, also while B is open
\* inside A.
C8_ShownWhileAOpen ==
    (/\ ~all
     /\ step = <<"A">>
     /\ Evaluated
     /\ sections # <<>>
     /\ \A i \in 1..Len(sections) : ~sections[i].collapsed)
        => (show_line <=> \E i \in 1..Len(sections) : sections[i].name = <<"A">>)

C8_Witness ==
    /\ ~all
    /\ step = <<"A">>
    /\ Evaluated
    /\ sections = <<SecA, SecB>>
    /\ show_line

\* the shapes of the third field: name[flags] with no other bracket, and a
\* name without brackets
Count(f, c) == Cardinality({i \in 1..Len(f) : f[i] = c})
Bracketed(f) ==
    /\ Count(f, LBRACK) = 1
    /\ Count(f, RBRACK) = 1
    /\ f # <<>>
    /\ f[Len(f)] = RBRACK
Bare(f) == Count(f, LBRACK) = 0 /\ Count(f, RBRACK) = 0

\* the marker that keyword ':' 0 ':' field denotes
Denoted(kw, f) ==
    LET type_ == IF kw = KwStart THEN "Start" ELSE "End" IN
    IF Bracketed(f)
    THEN LET i == CHOOSE k \in 1..Len(f) : f[k] = LBRACK IN
         Section(type_, SubSeq(f, 1, i - 1),
                 SubSeq(f, i + 1, Len(f) - 1) = <<FlagCollapsed>>)
    ELSE Section(type_, f, FALSE)

IsMarkerShape(c) ==
    /\ c.kw \in {KwStart, KwEnd}
    /\ c.ts
    /\ (Bracketed(c.field) \/ Bare(c.field))

\* C9: for keyword:ts:name[flags] the parsed name is the text before '[' and
\* collapsed is true exactly when flags is collapsed=true; without brackets
\* the name is the whole third field (of the trimmed text) and collapsed is
\* false.
C9_NameAndCollapsed ==
    (parse.ret # NoCall /\ parse.pre = <<>> /\ IsMarkerShape(parse))
        => parse.ret = Denoted(parse.kw, parse.field)

C9_Witness ==
    /\ parse.ret.tag = "Ok"
    /\ parse.pre = <<>>
    /\ parse.field = <<"build", LBRACK, FlagCollapsed, RBRACK>>
    /\ parse.ret.name = <<"build">>
    /\ parse.ret.collapsed

\* C10: a marker text with a carriage return in front of the keyword parses
\* to the same marker as the text without it.
C10_LeadingCrTrimmed ==
    (parse.ret # NoCall /\ parse.pre = <<CR>> /\ IsMarkerShape(parse))
        => parse.ret = Denoted(parse.kw, parse.field)

\* the third field has no well-formed bracket pair: no '[', or no ']', or
\* its first ']' comes before its first '['
FirstAt(f, c) ==
    IF Count(f, c) = 0 THEN 0
    ELSE CHOOSE i \in 1..Len(f) : f[i] = c /\ \A j \in 1..(i - 1) : f[j] # c
NoBracketPair(f) ==
    \/ Count(f, LBRACK) = 0
    \/ Count(f, RBRACK) = 0
    \/ FirstAt(f, RBRACK) < FirstAt(f, LBRACK)

\* C11: when the third field has no well-formed bracket pair, from_str
\* returns a marker named by the whole field with collapsed = false.
C11_NoBracketPairIsName ==
    (/\ parse.ret # NoCall
     /\ parse.pre = <<>>
     /\ parse.kw \in {KwStart, KwEnd}
     /\ parse.ts
     /\ NoBracketPair(parse.field))
        => parse.ret = Section(IF parse.kw = KwStart THEN "Start" ELSE "End",
                               parse.field, FALSE)

\* C13: once a write has failed the render has returned the error: it is in
\* its failed position, and no later step reads a line, takes a segment,
\* prints or returns success.
C13_WriteFailureAborts ==
    /\ [](fault = "write" => pc = "failed")
    /\ [][fault = "write"
            => /\ pc' = "failed"
               /\ out' = out
               /\ nread' = nread
               /\ nsegs' = nsegs]_vars

\* the print of the blank line after a banner failed while lines remained
C13_Witness ==
    /\ fault = "write"
    /\ pc = "failed"
    /\ nread < MaxLines
    /\ out # <<>>
    /\ out[Len(out)].kind = "banner"

\* C14: a segment recognised as a marker in State::Text only changes the
\* state to State::Section: stack, show_line and output stay as they are.
\* The pending marker is applied to the stack by the step that takes the
\* next segment, on this line or a later one, and by no other step.
C14_MarkerAppliedByNextSegment ==
    [][/\ (state = StateText /\ state'.tag = "Section")
            => (sections' = sections /\ show_line' = show_line /\ out' = out)
       /\ (state.tag = "Section" /\ nsegs' = nsegs)
            => (sections' = sections /\ state' = state)
       /\ (state.tag = "Section" /\ nsegs' = nsegs + 1)
            => Len(sections') =
                 IF state.section.type_ = "Start" THEN Len(sections) + 1
                 ELSE IF sections = <<>> THEN 0 ELSE Len(sections) - 1]_vars

\* the Start marker that ended line 1 has been applied by the first segment
\* of line 2
C14_Witness ==
    /\ pc = "seg"
    /\ nread = 2
    /\ nsegs = 2
    /\ Len(line) = 1
    /\ sections = <<SecA>>
    /\ state = StateText

\* C15: applying a Start marker appends one entry with the marker's name and
\* collapsed flag and keeps the entries below; applying an End marker
\* removes the top entry only, whatever its name; on an empty stack it
\* leaves the stack empty and the render goes on with the line (unless
\* parsing the segment at hand panics, which is C4).
C15_PushAndPopTouchTheTop ==
    [][(state.tag = "Section" /\ nsegs' = nsegs + 1)
          => LET n == Len(sections) IN
             IF state.section.type_ = "Start"
             THEN /\ Len(sections') = n + 1
                  /\ \A i \in 1..n : sections'[i] = sections[i]
                  /\ sections'[n + 1].name = state.section.name
                  /\ sections'[n + 1].collapsed = state.section.collapsed
             ELSE IF n > 0
             THEN /\ Len(sections') = n - 1
                  /\ \A i \in 1..(n - 1) : sections'[i] = sections[i]
             ELSE /\ sections' = <<>>
                  /\ pc' # "failed"
                  /\ (pc' = "seg" \/ line'[Len(line')] = TxtShortMarker)]_vars

\* in the nested log the marker End B has popped section A
C15_Witness ==
    /\ hist = SubSeq(NestedLog, 1, 3)
    /\ pc = "seg"
    /\ line = <<MkEndA>>
    /\ sections = <<>>
    /\ banners = 1

\* the marker segment texts of the logs, and the marker each denotes
MarkerTexts == {MkStartCollapsed, MkStartA, MkStartB, MkEnd_a, MkEndA, MkEndB}
MarkerOf(s) == Denoted(s[1], SubSeq(s, 5, Len(s)))

\* C16: after an End marker has been applied while processing segment s, the
\* state is State::Section(m) when s is the text of marker m and State::Text
\* when s is plain text; after a Start marker has been applied the state is
\* State::Text, also when s is the text of a marker.
C16_ModeAfterApplying ==
    [][(state.tag = "Section" /\ nsegs' = nsegs + 1 /\ pc' = "seg")
          => LET s == line'[Len(line')] IN
             IF state.section.type_ = "End"
             THEN /\ s \in MarkerTexts => state' = StateSection(MarkerOf(s))
                  /\ s \in PlainTexts => state' = StateText
             ELSE state' = StateText]_vars

\* End B then End A on one line: after End B was applied on the segment
\* End A, that segment is the pending marker
C16_Witness ==
    /\ pc = "seg"
    /\ line = <<MkEndB, MkEndA>>
    /\ state = StateSection(Section("End", <<"A">>, FALSE))

\* a step that applies the pending marker and goes on with the line
Applies == state.tag = "Section" /\ nsegs' = nsegs + 1 /\ pc' = "seg"

\* C17: in colored mode, applying a Start or End marker makes show_line
\* false, it stays false for every later segment of that line, and the end
\* of that line prints nothing; in plain mode show_line is then the
\* visibility rule on the new stack.
C17_ColoredSkipsTheLine ==
    [][/\ (colored /\ Applies) => ~show_line'
       /\ (colored /\ pc = "seg" /\ ~show_line /\ pc' \in {"seg", "read"})
            => ~show_line'
       /\ (colored /\ pc = "seg" /\ ~show_line /\ pc' = "read") => out' = out
       /\ (~colored /\ Applies) => (show_line' <=> Visible(sections', all, step))]_vars

\* colored, all = true: the title segment applied a Start marker, a plain
\* segment followed, and the line ended without the raw line being printed
C17_Witness ==
    /\ colored
    /\ all
    /\ pc = "read"
    /\ nread = 2
    /\ line = <<TxtVisible, TxtHidden>>
    /\ ~show_line
    /\ Len(out) = 2
    /\ out[1].kind = "banner"
    /\ out[2] = EvBlank

\* C18: the text of a segment recognised as a marker is never printed as
\* log text, neither as a plain segment nor within the raw line printed at
\* the end of a line.
C18_MarkerTextNeverPrinted == \A s \in MarkerTexts : ~ShownAsText(s)

\* C19: the banner printed for a Start marker carries the mark " <" exactly
\* when the visibility rule is false on the stack after the push; in colored
\* mode the blank line after the banner is printed exactly when that rule is
\* true, and in plain mode it is never printed.
C19_BannerMarkAndBlank ==
    [][(Applies /\ state.section.type_ = "Start")
          => LET n == Len(out)
                 shown == Visible(sections', all, step)
             IN  /\ Len(out') \in {n + 1, n + 2}
                 /\ out'[n + 1].kind = "banner"
                 /\ out'[n + 1].filtered <=> ~shown
                 /\ Len(out') = n + 2 => out'[n + 2] = EvBlank
                 /\ Len(out') = n + 2 <=> (colored /\ shown)]_vars

\* colored, all = false: section A matches step, its banner has no mark and
\* the blank line follows it
C19_Witness ==
    /\ colored
    /\ ~all
    /\ pc = "seg"
    /\ sections = <<SecA>>
    /\ Len(out) = 2
    /\ out[1].kind = "banner"
    /\ ~out[1].filtered
    /\ out[2] = EvBlank

\* C20: the render terminates; the reader advances one line at a time; at
\* the first line that is not UTF-8 the render has returned success, and
\* after that no line is read, no segment is taken and nothing is printed.
C20_TerminatesAndStopsAtBadLine ==
    /\ <>(pc \in {"done", "failed", "panicked"})
    /\ [](fault = "utf8" => pc = "done")
    /\ [][/\ nread' \in {nread, nread + 1}
          /\ fault = "utf8"
               => (pc' = "done" /\ nread' = nread /\ nsegs' = nsegs /\ out' = out)]_vars

\* two lines were processed, the third could not be read, lines remained
C20_Witness ==
    /\ fault = "utf8"
    /\ pc = "done"
    /\ nread = 3
    /\ nread < MaxLines
    /\ nsegs >= 2

====
